---- MODULE Spec2Model ----
(***************************************************************************)
(* BinaryManager of src-tauri/src/binaries/binaries_manager.rs: the        *)
(* version lists, the version selection, and the download pipeline with    *)
(* its retry wrapper, over a model of the binary folder on disk.           *)
(*                                                                         *)
(* File system: a version directory is named by Version::to_string and     *)
(* read back by Version::from_str, which are inverse on the names used     *)
(* here, so the disk is indexed by version.  std::fs::remove_dir_all of a  *)
(* tree is taken to succeed; std::fs::create_dir_all and every call of the *)
(* adapter may fail.  Logging is not modelled.                             *)
(***************************************************************************)
EXTENDS Integers, Sequences, FiniteSets, TLC

VARIABLES
    versions_requirements_data,      \* the policy document `new` read
    version_requirements,            \* VersionReq: sequence of comparators
    network_prerelease_prefix,       \* Option<String>
    should_validate_checksum,        \* bool
    online_versions_list,            \* Vec<VersionDownloadInfo> (the versions)
    local_aviailable_versions_list,  \* Vec<Version>
    used_version,                    \* Option<Version>
    disk,                            \* the binary folder: version -> directory
    pc,                              \* position of download_version_with_retries
    selected_version,                \* its argument selected_version
    progress_channel,                \* its argument progress_channel is Some
    retry,                           \* its loop variable
    asset,                           \* VersionAsset of the running pipeline
    run,                             \* what the current pipeline run has done
    call,                            \* what the current wrapper call has done
    last_op,                         \* the operation called last, and how it went
    budget,                          \* calls of operations still explored
    shutdown_signal,                 \* the shutdown signal is triggered
    channel,                         \* the watch channels of the pipeline run
    relay_task                       \* the relay tasks the pipeline run spawned

vars == << versions_requirements_data, version_requirements, network_prerelease_prefix, should_validate_checksum,
           online_versions_list, local_aviailable_versions_list, used_version,
           disk, pc, selected_version, progress_channel, retry, asset, run, call,
           last_op, budget, shutdown_signal, channel, relay_task >>

config == << versions_requirements_data, version_requirements, network_prerelease_prefix,
            should_validate_checksum >>
lists == << online_versions_list, local_aviailable_versions_list >>
pipeline == << pc, selected_version, progress_channel, retry, asset, run, call >>
manager == << config, lists, used_version, disk, pipeline, last_op, budget >>
relays == << shutdown_signal, channel, relay_task >>

----
\* Bounds of the exploration.

\* calls of the manager's operations explored in one behaviour
MaxCalls == 4

\* the retry loop `for retry in 0..3`
MaxAttempts == 3

----
\* Option<T>

None == << >>
Some(x) == << x >>
unwrap_or(opt, default) == IF opt = None THEN default ELSE opt[1]

----
\* semver::Version, its order, and semver::VersionReq

Version(major, minor, patch, pre) ==
    [major |-> major, minor |-> minor, patch |-> patch, pre |-> pre]

\* a prerelease is a string, held as its characters; the empty one is a release
NoPre == << >>
PreTag == << "p", "r", "e" >>

\* Version::new(0, 0, 0)
ZeroVersion == Version(0, 0, 0, NoPre)

V000pre == Version(0, 0, 0, PreTag)
V000re == Version(0, 0, 0, << "r", "e" >>)
V140 == Version(1, 4, 0, NoPre)
V150 == Version(1, 5, 0, NoPre)
V210 == Version(2, 1, 0, NoPre)

Versions == { V000pre, V000re, ZeroVersion, V140, V150, V210 }

Alphabet == << "e", "p", "r" >>
CharRank(c) == CHOOSE i \in 1..Len(Alphabet) : Alphabet[i] = c

Sign(n) == IF n < 0 THEN -1 ELSE IF n > 0 THEN 1 ELSE 0

\* str::cmp: bytewise, a proper prefix is less
RECURSIVE StrCmp(_, _)
StrCmp(a, b) ==
    IF a = << >> /\ b = << >> THEN 0
    ELSE IF a = << >> THEN -1
    ELSE IF b = << >> THEN 1
    ELSE IF Head(a) # Head(b) THEN Sign(CharRank(Head(a)) - CharRank(Head(b)))
    ELSE StrCmp(Tail(a), Tail(b))

\* Prerelease::cmp for single alphabetic identifiers: no prerelease is greatest
PreCmp(a, b) ==
    IF a = NoPre /\ b = NoPre THEN 0
    ELSE IF a = NoPre THEN 1
    ELSE IF b = NoPre THEN -1
    ELSE StrCmp(a, b)

\* Version::cmp: major, minor, patch, then prerelease
VersionCmp(a, b) ==
    IF a.major # b.major THEN Sign(a.major - b.major)
    ELSE IF a.minor # b.minor THEN Sign(a.minor - b.minor)
    ELSE IF a.patch # b.patch THEN Sign(a.patch - b.patch)
    ELSE PreCmp(a.pre, b.pre)

\* Ord::max
VersionMax(a, b) == IF VersionCmp(a, b) > 0 THEN a ELSE b

\* a comparator of a VersionReq with major, minor and patch given
Comparator(op, v) == [op |-> op, version |-> v]

\* Comparator::matches for the operators >= and <
matches_impl(cmp, ver) ==
    IF cmp.op = ">=" THEN VersionCmp(ver, cmp.version) >= 0
    ELSE VersionCmp(ver, cmp.version) < 0

\* a prerelease version is admitted only by a comparator on the same
\* major.minor.patch that has a prerelease itself
pre_is_compatible(cmp, ver) ==
    /\ cmp.version.major = ver.major
    /\ cmp.version.minor = ver.minor
    /\ cmp.version.patch = ver.patch
    /\ cmp.version.pre # NoPre

\* VersionReq::matches
ReqMatches(req, ver) ==
    /\ \A i \in 1..Len(req) : matches_impl(req[i], ver)
    /\ \/ ver.pre = NoPre
       \/ \E i \in 1..Len(req) : pre_is_compatible(req[i], ver)

\* VersionReq::default(), the requirement `*`
ReqStar == << >>
\* ">=1.0.0, <2.0.0"
ReqRange == << Comparator(">=", Version(1, 0, 0, NoPre)),
               Comparator("<", Version(2, 0, 0, NoPre)) >>
\* ">=0.0.0-pre"
ReqPre == << Comparator(">=", V000pre) >>

\* Version::to_string and Version::from_str, a string held as its characters
\* and every number of the versions here a single digit
Digits == << "0", "1", "2", "3", "4", "5", "6", "7", "8", "9" >>
DigitChar(n) == Digits[n + 1]
IsDigit(c) == \E n \in 0..9 : Digits[n + 1] = c
DigitValue(c) == CHOOSE n \in 0..9 : Digits[n + 1] = c

to_string(v) ==
    << DigitChar(v.major), ".", DigitChar(v.minor), ".", DigitChar(v.patch) >>
        \o (IF v.pre = NoPre THEN << >> ELSE << "-" >> \o v.pre)

Version_from_str(name) ==
    IF /\ Len(name) >= 5
       /\ IsDigit(name[1]) /\ name[2] = "." /\ IsDigit(name[3]) /\ name[4] = "."
       /\ IsDigit(name[5])
       /\ Len(name) = 5 \/ (Len(name) > 6 /\ name[6] = "-")
    THEN Some(Version(DigitValue(name[1]), DigitValue(name[3]), DigitValue(name[5]),
                      SubSeq(name, 7, Len(name))))
    ELSE None

\* str::matches(pattern).any(): pattern occurs in s
Contains(s, pattern) ==
    \E i \in 0..(Len(s) - Len(pattern)) : SubSeq(s, i + 1, i + Len(pattern)) = pattern

\* sort_by(cmp) followed by reverse(), as an insertion into a descending list
RECURSIVE InsertDesc(_, _)
InsertDesc(s, v) ==
    IF s = << >> THEN << v >>
    ELSE IF VersionCmp(v, Head(s)) >= 0 THEN << v >> \o s
    ELSE << Head(s) >> \o InsertDesc(Tail(s), v)

\* a sort that leaves the list as it is
SortNone(s) == s

RECURSIVE SortDesc(_)
SortDesc(s) == IF s = << >> THEN << >> ELSE InsertDesc(SortDesc(Tail(s)), Head(s))

Range(s) == { s[i] : i \in 1..Len(s) }

\* the orders in which read_dir can list the directories D
Listings(D) == { s \in [1..Cardinality(D) -> D] : Range(s) = D }

----
\* The binary folder.  A version directory holds files (the runnable artifact
\* under its plain name "bin", its .exe variant "exe", the bundle marker
\* "html" for index.html, the checksum file, anything "other") and the
\* in_progress staging directory, absent, empty or holding the archive.

Runnable == { "bin", "exe", "html" }

NoDir == [exists |-> FALSE, files |-> {}, staging |-> "absent"]
Dir(files, staging) == [exists |-> TRUE, files |-> files, staging |-> staging]
EmptyDir == Dir({}, "absent")

\* what an archive can unpack to, and what a failed extraction can leave
ArchiveContents == { {"bin"}, {"exe"}, {"html"}, {"other"} }
PartialContents == { {}, {"exe"} }

\* the versions with a directory when the manager is constructed
InitInstallable == { V140, V150 }
InitDirs == { NoDir, Dir({"bin"}, "absent") }

\* what the binary folder holds besides version directories: a directory
\* whose name is no SemVer
OtherEntries == { [name |-> << "l", "a", "t", "e", "s", "t" >>, is_dir |-> TRUE] }

\* Result<Vec<VersionDownloadInfo>, Error> of fetch_releases_list
Ok(value) == [ok |-> TRUE, value |-> value]
Err == [ok |-> FALSE, value |-> << >>]

\* the release lists fetch_releases_list can return
Catalogs == { << >>, << V140, V150 >>, << V150, V210 >>,
              << V000pre, V000re, ZeroVersion >> }

\* VersionReq::from_str on the requirement strings of the policy documents
VersionReq_from_str(version_req) ==
    CASE version_req = ">=1.0.0, <2.0.0" -> Some(ReqRange)
      [] version_req = ">=0.0.0-pre" -> Some(ReqPre)
      [] OTHER -> None

\* a policy document: text that serde_json cannot read, or the entry of the
\* binary in its `binaries` map, if any
Unparseable == [parsed |-> FALSE, entry |-> None]
Document(entry) == [parsed |-> TRUE, entry |-> entry]

\* the documents whose requirement cannot be read
BrokenDocuments == { Unparseable, Document(None), Document(Some("latest")) }

\* what the manager is constructed with: (policy document, prerelease prefix)
Policies == { << Unparseable, None >>,
              << Document(None), Some(PreTag) >>,
              << Document(Some("latest")), Some(PreTag) >>,
              << Document(Some(">=1.0.0, <2.0.0")), None >>,
              << Document(Some(">=0.0.0-pre")), Some(PreTag) >> }

----
\* The manager's functions.

read_version_requirements(data_str) ==
    LET entry == IF data_str.parsed THEN data_str.entry ELSE None
        version_req == IF entry = None THEN None ELSE VersionReq_from_str(entry[1])
    IN  unwrap_or(version_req, ReqStar)

\* a check that looks at the semver requirement only
check_if_version_meet_semver(version) == ReqMatches(version_requirements, version)

check_if_version_meet_requirements(version) ==
    LET is_meet_semver == ReqMatches(version_requirements, version)
        did_meet_network_prerelease ==
            \/ network_prerelease_prefix = None
            \/ Contains(version.pre, network_prerelease_prefix[1])
    IN  is_meet_semver /\ did_meet_network_prerelease

select_highest_local_version ==
    IF local_aviailable_versions_list = << >> THEN None
    ELSE Some(local_aviailable_versions_list[1])

select_highest_online_version ==
    IF online_versions_list = << >> THEN None
    ELSE Some(online_versions_list[1])

select_highest_version ==
    LET highest_version == VersionMax(unwrap_or(select_highest_online_version, ZeroVersion),
                                      unwrap_or(select_highest_local_version, ZeroVersion))
    IN  IF highest_version = ZeroVersion THEN None ELSE Some(highest_version)

\* a check that takes any entry of the version directory for the artifact
check_if_files_any_entry(version, folder_ok) ==
    IF version = None \/ ~folder_ok THEN FALSE
    ELSE LET version_folder == disk[version[1]]
         IN  /\ version_folder.exists
             /\ version_folder.files # {} \/ version_folder.staging # "absent"

\* folder_ok: adapter.get_binary_folder() returned Ok
check_if_files_for_version_exist(version, folder_ok) ==
    IF version = None \/ ~folder_ok THEN FALSE
    ELSE LET version_folder == disk[version[1]]
         IN  version_folder.exists /\ version_folder.files \cap Runnable # {}

\* an update that keeps every fetched version
check_for_updates_list_unfiltered(list, versions_info) == SortDesc(list \o versions_info)

\* the list check_for_updates leaves, given the fetched versions_info
check_for_updates_list(list, versions_info) ==
    SortDesc(list \o SelectSeq(versions_info, check_if_version_meet_requirements))

\* an unwrap that falls back to the release list 1.5.0
unwrap_or_stale(result) == IF result.ok THEN result.value ELSE << V150 >>

\* Result::unwrap_or_default
unwrap_or_default(result) == IF result.ok THEN result.value ELSE << >>

\* the version directories of the binary folder
VersionFolders == { v \in Versions : disk[v].exists }

\* the entries read_dir yields
FolderEntries ==
    { [name |-> to_string(v), is_dir |-> TRUE] : v \in VersionFolders } \cup OtherEntries

read_local_versions_keep(version) ==
    /\ check_if_version_meet_requirements(version)
    /\ check_if_files_for_version_exist(Some(version), TRUE)

\* the entries of the listing whose version is pushed: directories with a
\* SemVer name that pass both checks
read_local_versions_push(version_folder) ==
    /\ version_folder.is_dir
    /\ Version_from_str(version_folder.name) # None
    /\ read_local_versions_keep(Version_from_str(version_folder.name)[1])

\* a scan that puts what it finds in front of the list
read_local_versions_list_front(list, version_folders_list) ==
    LET found == SelectSeq(version_folders_list, read_local_versions_push)
    IN  [i \in 1..Len(found) |-> Version_from_str(found[i].name)[1]] \o list

\* the list read_local_versions leaves, given the read_dir listing
read_local_versions_list(list, version_folders_list) ==
    LET found == SelectSeq(version_folders_list, read_local_versions_push)
    IN  list \o [i \in 1..Len(found) |-> Version_from_str(found[i].name)[1]]

----
\* File-system steps of the pipeline, each on the directory of one version.

\* std::fs::remove_dir_all(dir)
remove_dir_all(dir) == NoDir

\* a preparation that creates the directory when it is missing and leaves an
\* existing one as it is
ensure_empty_directory_kept(dir, create_ok) ==
    IF dir.exists THEN dir ELSE IF create_ok THEN EmptyDir ELSE dir

\* create_ok: create_dir_all returned Ok
ensure_empty_directory(dir, create_ok) ==
    LET removed == IF dir.exists THEN remove_dir_all(dir) ELSE dir
    IN  IF create_ok THEN EmptyDir ELSE removed

\* the version directory after create_in_progress_folder_for_selected_version
\* got the binary folder: in_progress is removed if there, then created
create_in_progress_folder(dir, create_ok) ==
    IF create_ok THEN Dir(dir.files, "empty")
    ELSE IF dir.exists THEN Dir(dir.files, "absent") ELSE dir

\* a removal that leaves in_progress where it is
delete_in_progress_folder_skipped(dir) == dir

\* the version directory after delete_in_progress_folder_for_selected_version
\* got the binary folder
delete_in_progress_folder(dir) ==
    IF dir.exists /\ dir.staging # "absent" THEN Dir(dir.files, "absent") ELSE dir

\* download_file into in_progress: a failed transfer may leave a partial archive
download_file(dir, wrote) == IF wrote THEN Dir(dir.files, "archive") ELSE dir

\* extract(in_progress_file_zip, destination_dir)
extract(dir, contents) == Dir(dir.files \cup contents, dir.staging)

\* validate_checksum, by what happened:
\*   "file_error"    download_and_get_checksum_path failed
\*   "lookup_error"  get_expected_checksum failed
\*   "compute_error" download_utils::validate_checksum returned Err
\*   "mismatch"      it returned Ok(false)
\*   "match"         it returned Ok(true)
ChecksumOutcomes == { "file_error", "lookup_error", "compute_error", "mismatch", "match" }

on_checksum_file_error(dir) == remove_dir_all(dir)
on_checksum_lookup_error(dir) == Dir(dir.files \cup {"checksum"}, dir.staging)
on_checksum_compute_error(dir) == remove_dir_all(dir)
\* a mismatch branch that forgets the removal
on_checksum_mismatch_kept(dir) == dir
on_checksum_mismatch(dir) == remove_dir_all(dir)
on_checksum_match(dir) == Dir(dir.files \cup {"checksum"}, dir.staging)

validate_checksum(dir, outcome) ==
    CASE outcome = "file_error" -> on_checksum_file_error(dir)
      [] outcome = "lookup_error" -> on_checksum_lookup_error(dir)
      [] outcome = "compute_error" -> on_checksum_compute_error(dir)
      [] outcome = "mismatch" -> on_checksum_mismatch(dir)
      [] outcome = "match" -> on_checksum_match(dir)

----
\* resolve_progress_channel: a tokio watch channel and the relay task that
\* forwards its values to the step update channel.  A pipeline run has at
\* most two of them, 1 for the primary download and 2 for the fallback.

RelayIds == { 1, 2 }

\* the progress values download_file publishes
Percentages == { 50, 100 }

\* Sender::send calls followed in one pipeline run
MaxPublish == 2

\* a watch channel: the values stored so far (its version is their number,
\* its value the last of them), the senders alive, the sends that returned Err
NoChannel == [values |-> << >>, senders |-> 0, rejected |-> 0]

\* channel::<f64>(0.0), with the senders the pipeline makes of it
watch_channel(senders) == [values |-> << >>, senders |-> senders, rejected |-> 0]

watch_version(ch) == Len(ch.values)

\* a read that takes the oldest stored value
watch_borrow_first(ch) == IF ch.values = << >> THEN 0 ELSE ch.values[1]

\* *receiver.borrow()
watch_borrow(ch) == IF ch.values = << >> THEN 0 ELSE ch.values[Len(ch.values)]

\* the channel is closed once every sender is dropped
watch_closed(ch) == ch.senders = 0

\* a relay task: where it is in its loop, the version its receiver has seen,
\* its last_percentage, and the version of the channel when it was read
NoRelay == [pc |-> "none", seen |-> 0, last_percentage |-> 0, borrowed |-> 0]
Spawned == [NoRelay EXCEPT !.pc = "loop"]

RelayRunning == { "loop", "changed", "borrow", "sleep" }
RelayEnded == { "completed", "stopped", "panicked" }

\* the receiver lives in the task and is dropped with it
receiver_dropped(task) == task.pc \in RelayEnded

----
\* State after construction.

NoAsset == [fallback_url |-> FALSE]
\* `cleared`: ensure_empty_directory found the destination and removed it
NoRun == [version |-> None, result |-> "none", stage |-> "none", streams |-> 0,
          primary |-> "none", fallback |-> "none", extractions |-> 0,
          checksum |-> "none", cleared |-> FALSE]
NoCall == [result |-> "none", attempts |-> 0, failures |-> 0, telemetry |-> 0]

Init ==
    /\ \E policy \in Policies :
          /\ versions_requirements_data = policy[1]
          /\ version_requirements = read_version_requirements(policy[1])
          /\ network_prerelease_prefix = policy[2]
    /\ should_validate_checksum \in BOOLEAN
    /\ online_versions_list = << >>
    /\ local_aviailable_versions_list = << >>
    /\ used_version = None
    /\ disk \in { d \in [Versions -> InitDirs] :
                     \A v \in Versions \ InitInstallable : d[v] = NoDir }
    /\ pc = "idle"
    /\ selected_version = None
    /\ progress_channel = FALSE
    /\ retry = 0
    /\ asset = NoAsset
    /\ run = NoRun
    /\ call = NoCall
    /\ last_op = "new"
    /\ budget = MaxCalls
    /\ shutdown_signal = FALSE
    /\ channel = [i \in RelayIds |-> NoChannel]
    /\ relay_task = [i \in RelayIds |-> NoRelay]

----
\* Operations of the manager.  Those taking &mut self cannot run while
\* download_version_with_retries holds &self.

\* an update that starts the local list afresh
check_for_updates_clears_local(versions_info) ==
    /\ pc = "idle"
    /\ budget > 0
    /\ online_versions_list' = check_for_updates_list(online_versions_list, versions_info)
    /\ local_aviailable_versions_list' = << >>
    /\ last_op' = "check_for_updates"
    /\ budget' = budget - 1
    /\ UNCHANGED << config, used_version, disk, pipeline, relays >>

\* check_for_updates once fetch_releases_list().unwrap_or_default() gave versions_info
check_for_updates_with(versions_info) ==
    /\ pc = "idle"
    /\ budget > 0
    /\ online_versions_list' = check_for_updates_list(online_versions_list, versions_info)
    /\ last_op' = "check_for_updates"
    /\ budget' = budget - 1
    /\ UNCHANGED << config, local_aviailable_versions_list, used_version, disk, pipeline,
                    relays >>

\* check_for_updates when fetch_releases_list() returned `result`
check_for_updates_fetching(result) == check_for_updates_with(unwrap_or_default(result))

check_for_updates ==
    \E result \in { Err } \cup { Ok(releases) : releases \in Catalogs } :
        check_for_updates_fetching(result)

\* read_local_versions
read_local_versions ==
    /\ pc = "idle"
    /\ budget > 0
    /\ \/ \E version_folders_list \in Listings(FolderEntries) :
             /\ local_aviailable_versions_list' =
                    read_local_versions_list(local_aviailable_versions_list,
                                             version_folders_list)
             /\ last_op' = "read_local_versions"
       \/ \E failed \in { "get_binary_folder", "read_dir" } :
             /\ local_aviailable_versions_list' = local_aviailable_versions_list
             /\ last_op' = "read_local_versions returned early"
    /\ budget' = budget - 1
    /\ UNCHANGED << config, online_versions_list, used_version, disk, pipeline, relays >>

\* a selection that also records the version as the used one
SelectHighestVersion_sets_used ==
    /\ pc = "idle"
    /\ budget > 0
    /\ selected_version' = select_highest_version
    /\ used_version' = select_highest_version
    /\ last_op' = "select_highest_version"
    /\ budget' = budget - 1
    /\ UNCHANGED << config, lists, disk, pc, progress_channel, retry, asset, run, call,
                    relays >>

\* the caller keeps the result of select_highest_version
SelectHighestVersion ==
    /\ pc = "idle"
    /\ budget > 0
    /\ selected_version' = select_highest_version
    /\ last_op' = "select_highest_version"
    /\ budget' = budget - 1
    /\ UNCHANGED << config, lists, used_version, disk, pc, progress_channel, retry,
                    asset, run, call, relays >>

\* set_used_version, called with the version the caller selected
set_used_version ==
    /\ pc = "idle"
    /\ budget > 0
    /\ selected_version # None
    /\ used_version' = Some(selected_version[1])
    /\ last_op' = "set_used_version"
    /\ budget' = budget - 1
    /\ UNCHANGED << config, lists, disk, pipeline, relays >>

----
\* download_version_with_retries and the pipeline download_selected_version,
\* one action per stretch between two awaits.

\* the locals of a pipeline run are gone when it returns
pipeline_locals_dropped == asset' = NoAsset

\* download_version_with_retries(selected_version, progress_channel) is called
download_version_with_retries ==
    /\ pc = "idle"
    /\ budget > 0
    /\ progress_channel' \in BOOLEAN
    /\ retry' = 0
    /\ call' = [NoCall EXCEPT !.result = "pending"]
    /\ run' = NoRun
    /\ asset' = NoAsset
    /\ pc' = "start"
    /\ last_op' = "download_version_with_retries"
    /\ budget' = budget - 1
    /\ UNCHANGED << config, lists, used_version, disk, selected_version, relays >>

\* what the adapter and the file system answer up to the first download:
\*   "no_asset"       find_version_for_platform returned Err
\*   "folder_error"   get_binary_folder returned Err
\*   "prepare_error"  ensure_empty_directory returned Err
\*   "staging_folder_error", "staging_error"
\*                    create_in_progress_folder_for_selected_version returned
\*                    Err, from get_binary_folder or from create_dir_all
\*   "asset", "asset_with_fallback"
\*                    all succeeded, the asset without or with a fallback_url
StartOutcomes == { "no_asset", "folder_error", "prepare_error", "staging_folder_error",
                   "staging_error", "asset", "asset_with_fallback" }

\* a lookup that is content with any version
version_info_found_any(version) == version \in Versions

\* get_asset_for_selected_version finds the version in the online list
version_info_found(version) == version \in Range(online_versions_list)

\* resolve_progress_channel: a relay is spawned when there is a progress channel
resolve_progress_channel(streams) == IF progress_channel THEN streams + 1 ELSE streams

\* download_selected_version from its start to the primary download
start_run ==
    /\ pc = "start"
    /\ call' = [call EXCEPT !.attempts = @ + 1]
    /\ \E outcome \in StartOutcomes :
          LET started == [NoRun EXCEPT !.version = selected_version, !.result = "running"]
              failed(stage) == /\ run' = [started EXCEPT !.result = "err", !.stage = stage]
                               /\ pc' = "returned"
                               /\ pipeline_locals_dropped
          IN  IF selected_version = None
              THEN failed("no_version") /\ disk' = disk
              ELSE LET version == selected_version[1]
                       prepared == [started EXCEPT !.cleared = disk[version].exists]
                       failed_prepared(stage) ==
                           /\ run' = [prepared EXCEPT !.result = "err", !.stage = stage]
                           /\ pc' = "returned"
                           /\ pipeline_locals_dropped
                   IN
                   IF ~version_info_found(version)
                   THEN failed("version_info") /\ disk' = disk
                   ELSE IF outcome = "no_asset"
                   THEN failed("asset") /\ disk' = disk
                   ELSE IF outcome = "folder_error"
                   THEN failed("folder") /\ disk' = disk
                   ELSE IF outcome = "prepare_error"
                   THEN /\ failed_prepared("prepare")
                        /\ disk' = [disk EXCEPT ![version] = ensure_empty_directory(@, FALSE)]
                   ELSE IF outcome = "staging_folder_error"
                   THEN /\ failed_prepared("staging")
                        /\ disk' = [disk EXCEPT ![version] = ensure_empty_directory(@, TRUE)]
                   ELSE IF outcome = "staging_error"
                   THEN /\ failed_prepared("staging")
                        /\ disk' = [disk EXCEPT ![version] =
                               create_in_progress_folder(ensure_empty_directory(@, TRUE), FALSE)]
                   ELSE /\ disk' = [disk EXCEPT ![version] =
                               create_in_progress_folder(ensure_empty_directory(@, TRUE), TRUE)]
                        /\ asset' = [fallback_url |-> outcome = "asset_with_fallback"]
                        /\ run' = [prepared EXCEPT !.streams = resolve_progress_channel(0)]
                        /\ pc' = "primary"
    /\ UNCHANGED << config, lists, used_version, selected_version, progress_channel,
                    retry, last_op, budget >>

\* where the pipeline goes when the primary download failed
after_primary_failure == IF asset.fallback_url THEN "fallback" ELSE "failed"

\* the primary download_file has returned
primary_download ==
    /\ pc = "primary"
    /\ \E ok \in BOOLEAN, wrote \in BOOLEAN :
          /\ disk' = [disk EXCEPT ![selected_version[1]] = download_file(@, ok \/ wrote)]
          /\ IF ok
             THEN /\ run' = [run EXCEPT !.primary = "ok"]
                  /\ pc' = "extract"
                  /\ asset' = asset
             ELSE IF after_primary_failure = "fallback"
             THEN /\ run' = [run EXCEPT !.primary = "failed",
                                        !.streams = resolve_progress_channel(@)]
                  /\ pc' = "fallback"
                  /\ asset' = asset
             ELSE /\ run' = [run EXCEPT !.primary = "failed",
                                        !.result = "err", !.stage = "download"]
                  /\ pc' = "returned"
                  /\ pipeline_locals_dropped
    /\ UNCHANGED << config, lists, used_version, selected_version, progress_channel,
                    retry, call, last_op, budget >>

\* a fallback download whose result is not looked at
after_fallback_unchecked(ok) == "extract"

\* where the pipeline goes when the fallback download has returned
after_fallback(ok) == IF ok THEN "extract" ELSE "failed"

\* the download_file from the fallback url has returned
fallback_download ==
    /\ pc = "fallback"
    /\ \E ok \in BOOLEAN, wrote \in BOOLEAN :
          /\ disk' = [disk EXCEPT ![selected_version[1]] = download_file(@, ok \/ wrote)]
          /\ IF after_fallback(ok) = "extract"
             THEN /\ run' = [run EXCEPT !.fallback = IF ok THEN "ok" ELSE "failed"]
                  /\ pc' = "extract"
                  /\ asset' = asset
             ELSE /\ run' = [run EXCEPT !.fallback = "failed",
                                        !.result = "err", !.stage = "download"]
                  /\ pc' = "returned"
                  /\ pipeline_locals_dropped
    /\ UNCHANGED << config, lists, used_version, selected_version, progress_channel,
                    retry, call, last_op, budget >>

\* extract has returned
extract_archive ==
    /\ pc = "extract"
    /\ \E ok \in BOOLEAN :
          IF ok
          THEN \E contents \in ArchiveContents :
                  /\ disk' = [disk EXCEPT ![selected_version[1]] = extract(@, contents)]
                  /\ run' = [run EXCEPT !.extractions = @ + 1]
                  /\ pc' = IF should_validate_checksum THEN "checksum" ELSE "cleanup"
                  /\ asset' = asset
          ELSE \E contents \in PartialContents :
                  /\ disk' = [disk EXCEPT ![selected_version[1]] = extract(@, contents)]
                  /\ run' = [run EXCEPT !.extractions = @ + 1,
                                        !.result = "err", !.stage = "extract"]
                  /\ pc' = "returned"
                  /\ pipeline_locals_dropped
    /\ UNCHANGED << config, lists, used_version, selected_version, progress_channel,
                    retry, call, last_op, budget >>

\* self.validate_checksum has returned
checksum_step ==
    /\ pc = "checksum"
    /\ \E outcome \in ChecksumOutcomes :
          /\ disk' = [disk EXCEPT ![selected_version[1]] = validate_checksum(@, outcome)]
          /\ IF outcome = "match"
             THEN /\ run' = [run EXCEPT !.checksum = outcome]
                  /\ pc' = "cleanup"
                  /\ asset' = asset
             ELSE /\ run' = [run EXCEPT !.checksum = outcome,
                                        !.result = "err", !.stage = "checksum"]
                  /\ pc' = "returned"
                  /\ pipeline_locals_dropped
    /\ UNCHANGED << config, lists, used_version, selected_version, progress_channel,
                    retry, call, last_op, budget >>

\* delete_in_progress_folder_for_selected_version has returned
cleanup_step ==
    /\ pc = "cleanup"
    /\ \E folder_ok \in BOOLEAN :
          IF folder_ok
          THEN /\ disk' = [disk EXCEPT ![selected_version[1]] = delete_in_progress_folder(@)]
               /\ run' = [run EXCEPT !.result = "ok"]
               /\ pc' = "returned"
          ELSE /\ disk' = disk
               /\ run' = [run EXCEPT !.result = "err", !.stage = "cleanup"]
               /\ pc' = "returned"
    /\ pipeline_locals_dropped
    /\ UNCHANGED << config, lists, used_version, selected_version, progress_channel,
                    retry, call, last_op, budget >>

\* a loop that runs once more
retries_exhausted_late(retries) == retries >= MaxAttempts + 1

\* the retry loop is left once `retries` runs have failed
retries_exhausted(retries) == retries >= MaxAttempts

\* the retry loop takes the result of a pipeline run; when the call returns
\* its locals are gone
retry_step ==
    /\ pc = "returned"
    /\ IF run.result = "ok"
       THEN /\ call' = [call EXCEPT !.result = "ok"]
            /\ pc' = "idle"
       ELSE IF retries_exhausted(retry + 1)
       THEN /\ call' = [call EXCEPT !.failures = @ + 1, !.telemetry = @ + 1,
                                    !.result = "err"]
            /\ pc' = "idle"
       ELSE /\ call' = [call EXCEPT !.failures = @ + 1]
            /\ pc' = "start"
    /\ IF pc' = "idle"
       THEN retry' = 0 /\ progress_channel' = FALSE
       ELSE retry' = retry + 1 /\ progress_channel' = progress_channel
    /\ run' = NoRun
    /\ asset' = asset
    /\ UNCHANGED << config, lists, used_version, disk, selected_version, last_op,
                    budget >>

\* The manager and the files: the relay tasks touch neither and are not
\* followed here.
Next ==
    \/ check_for_updates
    \/ read_local_versions
    \/ SelectHighestVersion
    \/ set_used_version
    \/ download_version_with_retries
    \/ start_run /\ UNCHANGED relays
    \/ primary_download /\ UNCHANGED relays
    \/ fallback_download /\ UNCHANGED relays
    \/ extract_archive /\ UNCHANGED relays
    \/ checksum_step /\ UNCHANGED relays
    \/ cleanup_step /\ UNCHANGED relays
    \/ retry_step /\ UNCHANGED relays

Spec == Init /\ [][Next]_vars

----
\* One pipeline run with a progress channel, and the relay tasks it spawns.

\* download_version_with_retries(Some(1.5.0), Some(channel)) has been called
\* after check_for_updates fetched [1.5.0, 2.1.0] under ">=1.0.0, <2.0.0" and
\* select_highest_version returned 1.5.0
RelayInit ==
    /\ versions_requirements_data = Document(Some(">=1.0.0, <2.0.0"))
    /\ version_requirements = read_version_requirements(versions_requirements_data)
    /\ network_prerelease_prefix = None
    /\ should_validate_checksum \in BOOLEAN
    /\ online_versions_list = << V150 >>
    /\ local_aviailable_versions_list = << >>
    /\ used_version = None
    /\ disk = [v \in Versions |-> NoDir]
    /\ pc = "start"
    /\ selected_version = Some(V150)
    /\ progress_channel = TRUE
    /\ retry = 0
    /\ asset = NoAsset
    /\ run = NoRun
    /\ call = [NoCall EXCEPT !.result = "pending"]
    /\ last_op = "download_version_with_retries"
    /\ budget = MaxCalls - 3
    /\ shutdown_signal = FALSE
    /\ channel = [i \in RelayIds |-> NoChannel]
    /\ relay_task = [i \in RelayIds |-> NoRelay]

\* resolve_progress_channel(progress_channel) makes channel i, with `senders`
\* senders of it, and spawns its relay task
spawn_relay(ch, tasks, i, senders) ==
    IF progress_channel
    THEN /\ channel' = [ch EXCEPT ![i] = watch_channel(senders)]
         /\ relay_task' = [tasks EXCEPT ![i] = Spawned]
    ELSE /\ channel' = ch
         /\ relay_task' = tasks

\* a sender of channel i is dropped
drop_sender(ch, i) == [ch EXCEPT ![i].senders = IF @ > 0 THEN @ - 1 ELSE 0]

\* download_selected_version returns: its senders are dropped
drop_senders(ch) == [i \in RelayIds |-> [ch[i] EXCEPT !.senders = 0]]

\* the pipeline up to the primary download: the sender and the clone of it
\* that download_file gets
relay_start_run ==
    /\ start_run
    /\ shutdown_signal' = shutdown_signal
    /\ IF pc' = "primary"
       THEN spawn_relay(channel, relay_task, 1, 2)
       ELSE UNCHANGED << channel, relay_task >>

\* the primary download_file returns and drops its clone of the sender; the
\* fallback download_file gets the second sender itself
relay_primary_download ==
    /\ primary_download
    /\ shutdown_signal' = shutdown_signal
    /\ IF pc' = "fallback"
       THEN spawn_relay(drop_sender(channel, 1), relay_task, 2, 1)
       ELSE /\ channel' = IF pc' = "returned" THEN drop_senders(channel)
                                               ELSE drop_sender(channel, 1)
            /\ relay_task' = relay_task

\* the fallback download_file returns and drops its sender
relay_fallback_download ==
    /\ fallback_download
    /\ channel' = IF pc' = "returned" THEN drop_senders(channel)
                                       ELSE drop_sender(channel, 2)
    /\ UNCHANGED << shutdown_signal, relay_task >>

\* the steps after the downloads: the first sender lives until the run returns
relay_rest_of_run ==
    /\ extract_archive \/ checksum_step \/ cleanup_step
    /\ channel' = IF pc' = "returned" THEN drop_senders(channel) ELSE channel
    /\ UNCHANGED << shutdown_signal, relay_task >>

\* Sender::send never waits for the receiver: it stores the value, or
\* returns Err when the receiver is dropped
watch_send(ch, task, percentage) ==
    IF receiver_dropped(task)
    THEN [ch EXCEPT !.rejected = @ + 1]
    ELSE [ch EXCEPT !.values = Append(@, percentage)]

\* the Sender::send calls of the pipeline run so far
Sends == Len(channel[1].values) + channel[1].rejected
             + Len(channel[2].values) + channel[2].rejected

\* the download_file that holds a sender of channel i is running
Downloading(i) == progress_channel /\ pc = IF i = 1 THEN "primary" ELSE "fallback"

\* download_file publishes a progress value on the sender it was given
publish(i, percentage) ==
    /\ Downloading(i)
    /\ Sends < MaxPublish
    /\ channel' = [channel EXCEPT ![i] = watch_send(@, relay_task[i], percentage)]
    /\ UNCHANGED << manager, shutdown_signal, relay_task >>

\* the shutdown signal of the tasks tracker is triggered
trigger_shutdown ==
    /\ ~shutdown_signal
    /\ shutdown_signal' = TRUE
    /\ UNCHANGED << manager, channel, relay_task >>

\* top of the loop: if shutdown_signal.is_triggered() { break; }
relay_loop(i) ==
    /\ relay_task[i].pc = "loop"
    /\ relay_task' = [relay_task EXCEPT ![i].pc =
                         IF shutdown_signal THEN "stopped" ELSE "changed"]
    /\ UNCHANGED << manager, shutdown_signal, channel >>

\* receiver.changed().await.expect(..): Ok once there is a version not seen,
\* Err, and the panic of expect, once the channel is closed with none
relay_changed(i) ==
    /\ relay_task[i].pc = "changed"
    /\ IF watch_version(channel[i]) # relay_task[i].seen
       THEN relay_task' = [relay_task EXCEPT ![i].pc = "borrow",
                                             ![i].seen = watch_version(channel[i])]
       ELSE /\ watch_closed(channel[i])
            /\ relay_task' = [relay_task EXCEPT ![i].pc = "panicked"]
    /\ UNCHANGED << manager, shutdown_signal, channel >>

\* let last_percentage = *receiver.borrow(); send_update(..).await
relay_borrow(i) ==
    /\ relay_task[i].pc = "borrow"
    /\ relay_task' = [relay_task EXCEPT ![i].pc = "sleep",
                                        ![i].last_percentage = watch_borrow(channel[i]),
                                        ![i].borrowed = watch_version(channel[i])]
    /\ UNCHANGED << manager, shutdown_signal, channel >>

\* sleep(10 ms).await; if last_percentage.ge(&100.0) { break; }
relay_sleep(i) ==
    /\ relay_task[i].pc = "sleep"
    /\ relay_task' = [relay_task EXCEPT ![i].pc =
                         IF relay_task[i].last_percentage >= 100 THEN "completed"
                                                                 ELSE "loop"]
    /\ UNCHANGED << manager, shutdown_signal, channel >>

relay_step(i) == relay_loop(i) \/ relay_changed(i) \/ relay_borrow(i) \/ relay_sleep(i)

RelayNext ==
    \/ relay_start_run
    \/ relay_primary_download
    \/ relay_fallback_download
    \/ relay_rest_of_run
    \/ \E i \in RelayIds, percentage \in Percentages : publish(i, percentage)
    \/ trigger_shutdown
    \/ \E i \in RelayIds : relay_step(i)

RelaySpec == RelayInit /\ [][RelayNext]_vars

\* the runtime schedules every task that can run and the local steps of the
\* pipeline come to their end; nothing makes a download return, a value be
\* published or the shutdown happen
RelayFairSpec ==
    /\ RelaySpec
    /\ \A i \in RelayIds : WF_vars(relay_step(i))
    /\ WF_vars(relay_start_run)
    /\ WF_vars(relay_rest_of_run)

----
\* Properties.

RECURSIVE GreatestOrZero(_)
GreatestOrZero(s) ==
    IF s = << >> THEN ZeroVersion
    ELSE LET rest == GreatestOrZero(Tail(s))
         IN  IF rest # ZeroVersion /\ VersionCmp(rest, Head(s)) > 0 THEN rest ELSE Head(s)

Occurrences(s, v) == Cardinality({ i \in 1..Len(s) : s[i] = v })

\* the step is a call of the operation `op` that returned as `how`
Called(op, how) == budget' = budget - 1 /\ last_op' = how /\ op

\* the version directory holds in_progress and nothing else
OnlyStaging(v) == disk[v].exists /\ disk[v].files = {} /\ disk[v].staging # "absent"

\* C1: select_highest_version returns the maximum of the greatest version of
\* the online list and the greatest version of the local list, an empty list
\* counting as the zero version.
C1_SelectsGreatest ==
    (online_versions_list # << >> \/ local_aviailable_versions_list # << >>)
    => unwrap_or(select_highest_version, ZeroVersion)
           = VersionMax(GreatestOrZero(online_versions_list),
                        GreatestOrZero(local_aviailable_versions_list))

\* C2: every check_for_updates call leaves the online list holding exactly the
\* policy-matching versions of the release list it fetched, sorted descending,
\* nothing carried over from an earlier call.
C2_OnlineListReplaced ==
    [][\A versions_info \in Catalogs :
          check_for_updates_with(versions_info)
          => online_versions_list' =
                 SortDesc(SelectSeq(versions_info, check_if_version_meet_requirements))]_vars

\* C3: when a pipeline run returns an error raised at destination preparation,
\* download, extraction or checksum verification, the installation directory
\* of the version does not exist.
C3_NoDirAfterFailure ==
    (pc = "returned" /\ run.result = "err"
        /\ run.stage \in { "prepare", "download", "extract", "checksum" })
    => ~disk[run.version[1]].exists

\* C4: with checksum verification enabled, a pipeline run that fails in the
\* checksum step leaves the version reported as not present.
C4_NoUnverifiedRunnable ==
    (should_validate_checksum /\ pc = "returned" /\ run.stage = "checksum")
    => ~check_if_files_for_version_exist(run.version, TRUE)

C6_RetryBound ==
    /\ call.attempts <= 3
    /\ call.attempts - call.failures \in { 0, 1 }
    /\ pc = "start" => call.attempts = call.failures
    /\ pc # "idle" => /\ call.result = "pending"
                      /\ call.telemetry = 0
                      /\ retry = call.failures
    /\ run.result # "none" => run.version = selected_version
    /\ call.result = "ok" => /\ call.telemetry = 0
                             /\ call.attempts = call.failures + 1
    /\ call.result = "err" => /\ call.attempts = 3
                              /\ call.failures = 3
                              /\ call.telemetry = 1
    /\ call.telemetry # 0 => call.result = "err"

C6_Witness ==
    pc = "idle" /\ call.result = "err" /\ call.attempts = 3 /\ call.telemetry = 1

\* C7: the fallback url is contacted only after the primary download failed
\* and only when the asset has one, with a progress stream of its own;
\* extraction is reached only after a download that succeeded; a primary
\* failure without fallback url, or followed by a fallback failure, ends the
\* run with no extraction.
C7_Fallback ==
    /\ run.primary = "ok" => run.fallback = "none"
    /\ run.fallback # "none" => run.primary = "failed"
    /\ pc = "fallback" => /\ run.primary = "failed"
                          /\ run.fallback = "none"
                          /\ asset.fallback_url
                          /\ run.streams = IF progress_channel THEN 2 ELSE 0
    /\ (pc = "extract" \/ run.extractions > 0)
       => (run.primary = "ok" \/ run.fallback = "ok")
    /\ (run.primary = "failed" /\ run.fallback # "ok" /\ pc # "fallback")
       => /\ pc = "returned"
          /\ run.result = "err"
          /\ run.stage = "download"
          /\ run.extractions = 0

C7_Witness ==
    /\ pc = "returned"
    /\ run.result = "ok"
    /\ run.primary = "failed"
    /\ run.fallback = "ok"
    /\ run.streams = 2
    /\ run.extractions = 1

\* C8: whenever no pipeline run is executing, no version directory contains
\* an in_progress directory.
C8_NoStagingBetweenRuns ==
    pc \in { "idle", "start", "returned" }
    => \A v \in Versions : disk[v].staging = "absent"

\* C9: a version directory that contains only in_progress is not reported by
\* check_if_files_for_version_exist, and read_local_versions does not add its
\* version to the local list.
C9_StagingIsNoInstall ==
    /\ [](\A v \in Versions :
             OnlyStaging(v) => ~check_if_files_for_version_exist(Some(v), TRUE))
    /\ [][Called(read_local_versions, "read_local_versions")
          => \A v \in Versions :
                OnlyStaging(v)
                => Occurrences(local_aviailable_versions_list', v)
                       = Occurrences(local_aviailable_versions_list, v)]_vars

C9_Witness ==
    /\ last_op = "read_local_versions"
    /\ call.result = "err"
    /\ \E v \in Versions : OnlyStaging(v) /\ check_if_version_meet_requirements(v)

\* C10: used_version is unset after construction, only set_used_version
\* changes it, and once set it is never unset.
C10_UsedVersionFrame ==
    /\ used_version = None
    /\ [][used_version' # used_version => set_used_version]_vars
    /\ [][used_version # None => used_version' # None]_vars

C10_Witness ==
    /\ used_version # None
    /\ last_op = "download_version_with_retries"
    /\ pc = "idle"
    /\ call.result = "ok"

\* the policy of the claims: the semver range holds and the prerelease tag, if
\* one is required, occurs in the prerelease component
PolicyAdmits(v) ==
    /\ ReqMatches(version_requirements, v)
    /\ \/ network_prerelease_prefix = None
       \/ Contains(v.pre, network_prerelease_prefix[1])

LacksRequiredTag(v) ==
    /\ network_prerelease_prefix # None
    /\ ~Contains(v.pre, network_prerelease_prefix[1])

Installed(v) == disk[v].exists /\ disk[v].files \cap Runnable # {}

\* C11: check_if_version_meet_requirements(v) is true exactly when v satisfies
\* the semver range and the required prerelease tag, if any, occurs in v's
\* prerelease component; a version lacking the required tag is rejected even
\* when the range matches and is in neither the online nor the local list.
C11_PolicyMatch ==
    \A v \in Versions :
        /\ check_if_version_meet_requirements(v) <=> PolicyAdmits(v)
        /\ LacksRequiredTag(v)
           => /\ ~check_if_version_meet_requirements(v)
              /\ v \notin Range(online_versions_list)
              /\ v \notin Range(local_aviailable_versions_list)

C11_Witness ==
    /\ version_requirements = ReqPre
    /\ network_prerelease_prefix = Some(PreTag)
    /\ ReqMatches(version_requirements, V000re) /\ LacksRequiredTag(V000re)
    /\ ReqMatches(version_requirements, V140) /\ LacksRequiredTag(V140)
    /\ online_versions_list = << V000pre >>
    /\ Installed(V140)
    /\ last_op = "read_local_versions"
    /\ local_aviailable_versions_list = << >>

\* C12: when the policy document cannot be parsed, has no entry for the
\* binary, or the entry is no valid requirement, the version requirement the
\* manager is constructed with matches every version.
C12_FailOpenMatchesAll ==
    versions_requirements_data \in BrokenDocuments
    => \A v \in Versions : ReqMatches(version_requirements, v)

\* C13: a read_local_versions that follows a read_local_versions which listed
\* the binary folder, the disk unchanged in between, leaves the maximum of
\* the local list and the result of select_highest_version as they were.
C13_RescanKeepsSelection ==
    [][(last_op = "read_local_versions"
           /\ Called(read_local_versions, "read_local_versions"))
       => /\ GreatestOrZero(local_aviailable_versions_list')
                 = GreatestOrZero(local_aviailable_versions_list)
          /\ select_highest_version' = select_highest_version]_vars

C13_Witness ==
    /\ last_op = "read_local_versions"
    /\ local_aviailable_versions_list = << V140, V150, V150, V140 >>

\* the scenario: requirement >=1.0.0, <2.0.0, no prerelease tag, 1.4.0
\* installed and no directory for 1.5.0
ScenarioStart ==
    /\ versions_requirements_data = Document(Some(">=1.0.0, <2.0.0"))
    /\ network_prerelease_prefix = None
    /\ Installed(V140)
    /\ ~disk[V150].exists

\* the scenario after check_for_updates fetched [1.5.0, 2.1.0] and
\* read_local_versions listed the folder
ScenarioReady ==
    /\ ScenarioStart
    /\ online_versions_list = << V150 >>
    /\ V140 \in Range(local_aviailable_versions_list)

\* C14: in the scenario check_for_updates leaves the online list [1.5.0],
\* read_local_versions leaves 1.4.0 in the local list, and then
\* select_highest_version returns 1.5.0, the files of 1.5.0 are not there, and
\* a pipeline run for 1.5.0 finds its version info and, when the adapter and
\* the file system do not fail, goes on to the download of 1.5.0.
C14_Scenario ==
    /\ [][(ScenarioStart /\ online_versions_list = << >>
               /\ Called(check_for_updates_with(<< V150, V210 >>), "check_for_updates"))
          => online_versions_list' = << V150 >>]_vars
    /\ [][(ScenarioStart /\ Called(read_local_versions, "read_local_versions"))
          => V140 \in Range(local_aviailable_versions_list')]_vars
    /\ [](ScenarioReady
          => /\ select_highest_version = Some(V150)
             /\ \A folder_ok \in BOOLEAN :
                   ~check_if_files_for_version_exist(Some(V150), folder_ok)
             /\ version_info_found(V150))
    /\ [][(ScenarioReady /\ selected_version = Some(V150) /\ start_run)
          => /\ run'.version = Some(V150)
             /\ \/ pc' = "primary" /\ run'.result = "running"
                \/ pc' = "returned"
                      /\ run'.stage \in { "asset", "folder", "prepare", "staging" }]_vars

C14_Witness ==
    /\ versions_requirements_data = Document(Some(">=1.0.0, <2.0.0"))
    /\ online_versions_list = << V150 >>
    /\ local_aviailable_versions_list = << V140 >>
    /\ Installed(V140)
    /\ selected_version = Some(V150)
    /\ pc = "primary"
    /\ call.attempts = 1
    /\ run.version = Some(V150)
    /\ disk[V150] = Dir({}, "empty")

\* C15: a relay task that has ended has either forwarded a value of at least
\* 100 or seen the shutdown signal; it never ends by a panic.
C15_RelayEndsNormally ==
    \A i \in RelayIds :
        relay_task[i].pc \in RelayEnded
        => \/ relay_task[i].pc = "completed" /\ relay_task[i].last_percentage >= 100
           \/ relay_task[i].pc = "stopped" /\ shutdown_signal

\* C16: once the shutdown signal is triggered, the time comes when no relay
\* task is running, whatever the downloads do.
C16_ShutdownStopsRelays ==
    shutdown_signal ~> (\A i \in RelayIds : relay_task[i].pc \notin RelayRunning)

\* C17: while a download runs, a progress value can be published whatever
\* its relay task is doing; what a relay task reads is the value published
\* last, never one older than what it read before; and the pipeline can take
\* its next step whatever the relay tasks are doing.
C17_RelayNeverBlocks ==
    /\ [](\A i \in RelayIds, percentage \in Percentages :
             (Downloading(i) /\ Sends < MaxPublish) => ENABLED publish(i, percentage))
    /\ [][\A i \in RelayIds :
             relay_borrow(i)
             => /\ relay_task'[i].last_percentage
                       = channel[i].values[Len(channel[i].values)]
                /\ relay_task'[i].borrowed = Len(channel[i].values)
                /\ relay_task'[i].borrowed >= relay_task[i].borrowed]_vars
    /\ [](pc \in { "start", "primary", "fallback", "extract", "checksum", "cleanup" }
          => ENABLED (relay_start_run \/ relay_primary_download
                         \/ relay_fallback_download \/ relay_rest_of_run))

C17_Witness ==
    /\ pc = "returned"
    /\ relay_task[1].pc = "completed"
    /\ channel[1].values = << 100 >>
    /\ channel[1].rejected = 1
    /\ relay_task[2].pc = "changed"

\* C18: check_for_updates changes the online list only and read_local_versions
\* the local list only; neither changes what the other one reads (the policy,
\* the binary folder, the other list), so what the other one leaves is the
\* same before and after it and the two give the same state in either order.
C18_DisjointState ==
    /\ [][Called(check_for_updates, "check_for_updates")
          => /\ UNCHANGED << config, local_aviailable_versions_list, used_version, disk >>
             /\ \A version_folders_list \in Listings(FolderEntries) :
                   read_local_versions_list(local_aviailable_versions_list',
                                            version_folders_list)
                       = read_local_versions_list(local_aviailable_versions_list,
                                                  version_folders_list)]_vars
    /\ [][Called(read_local_versions, "read_local_versions")
          => /\ UNCHANGED << config, online_versions_list, used_version, disk >>
             /\ \A versions_info \in Catalogs :
                   check_for_updates_list(online_versions_list', versions_info)
                       = check_for_updates_list(online_versions_list, versions_info)]_vars

C18_Witness ==
    /\ budget = MaxCalls - 2
    /\ last_op = "check_for_updates"
    /\ online_versions_list = << V150, V140 >>
    /\ local_aviailable_versions_list = << V150, V140 >>

\* C19: a read_local_versions that cannot get or list the binary folder
\* returns with the manager as it was; one that lists it passes over the
\* directory whose name is no SemVer and still adds every installed version
\* the policy admits; a check_for_updates whose fetch fails does what one
\* fetching an empty release list does.
C19_ErrorsTolerated ==
    /\ [][Called(read_local_versions, "read_local_versions returned early")
          => UNCHANGED << config, lists, used_version, disk, pipeline >>]_vars
    /\ [][Called(read_local_versions, "read_local_versions")
          => /\ \E e \in FolderEntries : Version_from_str(e.name) = None
             /\ Range(local_aviailable_versions_list') \subseteq Versions
             /\ \A v \in Versions :
                   (Installed(v) /\ PolicyAdmits(v))
                   => v \in Range(local_aviailable_versions_list')]_vars
    /\ [][Called(check_for_updates_fetching(Err), "check_for_updates")
          => /\ online_versions_list'
                    = check_for_updates_list(online_versions_list, << >>)
             /\ UNCHANGED << config, local_aviailable_versions_list, used_version,
                             disk, pipeline >>]_vars

C19_Witness ==
    /\ last_op = "read_local_versions returned early"
    /\ online_versions_list = << V150, V140 >>
    /\ local_aviailable_versions_list = << V140, V150 >>
    /\ budget = MaxCalls - 4

\* C20: the online list is in descending SemVer order, its first element is
\* its greatest, and every entry satisfies the version policy.
C20_OnlineSortedDesc ==
    /\ \A i, j \in 1..Len(online_versions_list) :
          i < j => VersionCmp(online_versions_list[i], online_versions_list[j]) >= 0
    /\ \A i \in 1..Len(online_versions_list) :
          /\ VersionCmp(online_versions_list[1], online_versions_list[i]) >= 0
          /\ PolicyAdmits(online_versions_list[i])

C20_Witness ==
    /\ last_op = "check_for_updates"
    /\ online_versions_list = << V210, V150, V150, V140 >>

\* C21: in every reachable state the local list is ordered by SemVer
\* descending, so that its first element is its greatest version, whatever
\* the order in which read_dir listed the version directories.
C21_LocalSortedDesc ==
    /\ \A i \in 1..(Len(local_aviailable_versions_list) - 1) :
          VersionCmp(local_aviailable_versions_list[i],
                     local_aviailable_versions_list[i + 1]) >= 0
    /\ \A i \in 1..Len(local_aviailable_versions_list) :
          VersionCmp(local_aviailable_versions_list[1],
                     local_aviailable_versions_list[i]) >= 0

\* C22 as stated: at the moment extraction starts the installation directory
\* exists and contains no file and no subdirectory.
C22_EmptyBeforeExtraction ==
    pc = "extract" => disk[run.version[1]] = EmptyDir

\* C22 as amended: at the moment extraction starts the installation directory
\* exists and contains the in_progress directory with the downloaded archive
\* and nothing else, whatever it held when the run began.
C22_OnlyStagingBeforeExtraction ==
    pc = "extract" => disk[run.version[1]] = Dir({}, "archive")

C22_Witness ==
    /\ pc = "extract"
    /\ run.cleared
    /\ retry > 0
    /\ disk[run.version[1]] = Dir({}, "archive")

\* the order of the steps of one pipeline run: from each position, the
\* positions the run can go to next
StepOrder ==
    { << "start", "primary" >>, << "primary", "fallback" >>, << "primary", "extract" >>,
      << "fallback", "extract" >>, << "extract", "checksum" >>, << "extract", "cleanup" >>,
      << "checksum", "cleanup" >> }
      \cup { << step, "returned" >> :
                step \in { "start", "primary", "fallback", "extract", "checksum", "cleanup" } }
      \cup { << "idle", "start" >>, << "returned", "start" >>, << "returned", "idle" >> }

\* the run has prepared the destination and created the staging directory
Staged == run.result = "running" /\ disk[run.version[1]].exists

Downloaded == run.primary = "ok" \/ (run.primary = "failed" /\ run.fallback = "ok")

Verified == run.checksum = IF should_validate_checksum THEN "match" ELSE "none"

NothingToDownload ==
    \/ selected_version = None
    \/ selected_version[1] \notin Range(online_versions_list)

\* C24: a pipeline run for an absent version, for a version that is not in
\* the online list, or for which the adapter finds no platform asset, fails
\* and leaves every directory as it was; so does the whole call of
\* download_version_with_retries for an absent version or one that is not in
\* the online list.
C24_EarlyFailureKeepsDisk ==
    /\ [][pc = "start" /\ pc' # pc /\ NothingToDownload
          => /\ pc' = "returned"
             /\ run'.result = "err"
             /\ run'.stage \in { "no_version", "version_info" }
             /\ disk' = disk]_vars
    /\ [][pc = "start" /\ pc' = "returned" /\ run'.stage = "asset"
          => run'.result = "err" /\ disk' = disk]_vars
    /\ [][pc # "idle" /\ NothingToDownload
          => /\ disk' = disk
             /\ pc' = "idle" => call'.result = "err"]_vars

\* the wrapper has returned from a call for an installed version that only
\* the local list knows
C24_Witness ==
    /\ pc = "idle"
    /\ last_op = "download_version_with_retries"
    /\ call.result = "err"
    /\ call.attempts = MaxAttempts
    /\ selected_version # None
    /\ selected_version[1] \notin Range(online_versions_list)
    /\ selected_version[1] \in Range(local_aviailable_versions_list)
    /\ Installed(selected_version[1])

\* C25: select_highest_version returns no version exactly when the online
\* list and the local list are both empty; otherwise it returns a version
\* that is an element of one of the two lists.
C25_NoneIffBothEmpty ==
    /\ select_highest_version = None
       <=> (online_versions_list = << >> /\ local_aviailable_versions_list = << >>)
    /\ select_highest_version # None
       => select_highest_version[1]
              \in Range(online_versions_list) \cup Range(local_aviailable_versions_list)

====
